---- MODULE Spec2Model ----
(***************************************************************************)
(* Model of the access_ca_certificate resource adapter                     *)
(* (internal/provider/resource_cloudflare_access_ca_certificate.go).       *)
(*                                                                         *)
(* Go strings are modelled as sequences of one-character strings, so that  *)
(* strings.SplitN and the comparisons with "account" / "zone" are computed *)
(* and not assumed.  The empty Go string "" is the empty sequence <<>>.    *)
(***************************************************************************)
EXTENDS Integers, Sequences, FiniteSets, TLC

\* ------------------------------------------------------------------------
\* Bounds and program constants
\* ------------------------------------------------------------------------

\* largest number of "/"-joined pieces an import ID of the model is built from
MaxSegs == 4

\* the n of strings.SplitN(d.Id(), "/", 3)
SplitLimit == 3

\* the number of attributes Import requires (len(attributes) != 3)
RequiredAttributes == 3

\* ------------------------------------------------------------------------
\* Strings
\* ------------------------------------------------------------------------

Slash == "/"

EmptyString == <<>>

\* AccessIdentifierType values
AccountType == <<"a", "c", "c", "o", "u", "n", "t">>

ZoneType == <<"z", "o", "n", "e">>

\* first pieces an import ID is built from: nothing, the two scope kinds,
\* and a scope kind in another case
KindWords == {EmptyString, AccountType, ZoneType,
              <<"A", "c", "c", "o", "u", "n", "t">>}

\* the second piece and the scope fields of a configuration: container
\* identifiers, possibly empty
IdWords == {EmptyString, <<"a", "1">>, <<"c", "9">>}

\* the pieces after the second: certificate identifiers, possibly empty
CertWords == {EmptyString, <<"c", "9">>}

\* identifiers the remote service hands out for a created certificate
CertIDs == {<<"a", "1">>, <<"c", "9">>}

\* values of application_id in a configuration
AppIDs == {<<"p", "1">>, <<"p", "2">>}

\* the remote entities that a get call can return (Aud, PublicKey)
Entities == {[Aud |-> <<"u", "1">>, PublicKey |-> <<"k", "1">>],
             [Aud |-> <<"u", "2">>, PublicKey |-> <<"k", "2">>]}

RECURSIVE Join(_)
\* the pieces joined with "/"
Join(segs) ==
    IF Len(segs) = 0 THEN EmptyString
    ELSE IF Len(segs) = 1 THEN segs[1]
    ELSE segs[1] \o <<Slash>> \o Join(Tail(segs))

\* the strings handed to Import as d.Id()
ImportIDs ==
    UNION {{Join(<<k>> \o rest) :
              k \in KindWords,
              rest \in {r \in [1..(n - 1) -> IdWords] : \A i \in 2..(n - 1) : r[i] \in CertWords}} :
           n \in 1..MaxSegs}

\* index of the first "/" of s, 0 when there is none (strings.Index)
IndexSlash(s) ==
    IF \E i \in 1..Len(s) : s[i] = Slash
    THEN CHOOSE i \in 1..Len(s) : s[i] = Slash /\ \A j \in 1..(i - 1) : s[j] # Slash
    ELSE 0

RECURSIVE SplitN(_, _)
\* strings.SplitN(s, "/", n) for n > 0: at most n substrings, the last one
\* being the unsplit remainder
SplitN(s, n) ==
    LET i == IndexSlash(s) IN
    IF n <= 1 \/ i = 0 THEN <<s>>
    ELSE <<SubSeq(s, 1, i - 1)>> \o SplitN(SubSeq(s, i + 1, Len(s)), n - 1)

\* ------------------------------------------------------------------------
\* Local state record and remote outcomes
\* ------------------------------------------------------------------------

\* a *schema.ResourceData: the identifier and the five schema fields
NewData(id, app, account, zone) ==
    [id |-> id, application_id |-> app, account_id |-> account, zone_id |-> zone,
     aud |-> EmptyString, public_key |-> EmptyString]

\* the ResourceData a Create receives: the configuration, no identifier yet
Configs ==
    {NewData(EmptyString, app, account, zone) :
       app \in AppIDs, account \in IdWords, zone \in IdWords}

\* the ResourceData an Import receives: only the identifier is set
ImportData(cid) == NewData(cid, EmptyString, EmptyString, EmptyString)

\* outcomes of client.Create{,ZoneLevel}AccessCACertificate
CreateOutcomes ==
    {[res |-> "error", ID |-> EmptyString]} \cup {[res |-> "ok", ID |-> i] : i \in CertIDs}

\* outcomes of client.{,ZoneLevel}AccessCACertificate: the entity, a
\* *cloudflare.NotFoundError, or another error
GetOutcomes ==
    {[res |-> r, Aud |-> EmptyString, PublicKey |-> EmptyString] : r \in {"notfound", "error"}}
      \cup {[res |-> "ok", Aud |-> e.Aud, PublicKey |-> e.PublicKey] : e \in Entities}

\* outcomes of client.Delete{,ZoneLevel}AccessCACertificate
DeleteOutcomes == {"ok", "error"}

\* one event of a handler's run; k1, k2 are the arguments, r1, r2 what came back
Event(ev, fn, k1, k2, res, r1, r2) ==
    [ev |-> ev, fn |-> fn, k1 |-> k1, k2 |-> k2, res |-> res, r1 |-> r1, r2 |-> r2]

\* a remote call client.fn(ctx, container, applicationID)
CallEvent(fn, container, app, res, r1, r2) == Event("call", fn, container, app, res, r1, r2)

\* d.SetId(id)
SetIdEvent(id) == Event("SetId", "", id, EmptyString, "", EmptyString, EmptyString)

\* d.Set(key, value)
SetEvent(key, value) == Event("Set", key, value, EmptyString, "", EmptyString, EmptyString)

\* entry of resourceCloudflareAccessCACertificateRead, with d.Id() at that time
ReadEvent(id) == Event("Read", "", id, EmptyString, "", EmptyString, EmptyString)

\* what a handler leaves: the ResourceData, what it did, and its diagnostic
\* ("" is nil)
Outcome(dd, tr, diag) == [d |-> dd, trace |-> tr, diag |-> diag]

\* ------------------------------------------------------------------------
\* Scope Resolver
\* ------------------------------------------------------------------------

\* initIdentifier(d): the scope kind and container id, or an error when
\* neither or both of account_id and zone_id are set
initIdentifier(dd) ==
    IF (dd.account_id = EmptyString) = (dd.zone_id = EmptyString)
    THEN [err |-> TRUE, Type |-> EmptyString, Value |-> EmptyString]
    ELSE IF dd.account_id # EmptyString
         THEN [err |-> FALSE, Type |-> AccountType, Value |-> dd.account_id]
         ELSE [err |-> FALSE, Type |-> ZoneType, Value |-> dd.zone_id]

\* ------------------------------------------------------------------------
\* Handlers
\* ------------------------------------------------------------------------

\* Read with a Not-Found answer reported as any other failure
ReadOp_NotFoundIsError(dd, out) ==
    LET applicationID == dd.application_id
        identifier == initIdentifier(dd)
        entry == <<ReadEvent(dd.id)>>
    IN  IF identifier.err THEN Outcome(dd, entry, "scope")
        ELSE
          LET fn == IF identifier.Type = AccountType
                    THEN "AccessCACertificate" ELSE "ZoneLevelAccessCACertificate"
              tr == entry \o <<CallEvent(fn, identifier.Value, applicationID,
                                         out.res, out.Aud, out.PublicKey)>>
          IN  IF out.res # "ok" THEN Outcome(dd, tr, "find")
              ELSE Outcome([dd EXCEPT !.aud = out.Aud, !.public_key = out.PublicKey],
                           tr \o <<SetEvent("aud", out.Aud),
                                   SetEvent("public_key", out.PublicKey)>>, "")

\* Read that clears the identifier on every failure of the get call
ReadOp_ErrorClearsId(dd, out) ==
    LET applicationID == dd.application_id
        identifier == initIdentifier(dd)
        entry == <<ReadEvent(dd.id)>>
    IN  IF identifier.err THEN Outcome(dd, entry, "scope")
        ELSE
          LET fn == IF identifier.Type = AccountType
                    THEN "AccessCACertificate" ELSE "ZoneLevelAccessCACertificate"
              tr == entry \o <<CallEvent(fn, identifier.Value, applicationID,
                                         out.res, out.Aud, out.PublicKey)>>
          IN  IF out.res = "notfound"
              THEN Outcome([dd EXCEPT !.id = EmptyString],
                           tr \o <<SetIdEvent(EmptyString)>>, "")
              ELSE IF out.res = "error"
              THEN Outcome([dd EXCEPT !.id = EmptyString],
                           tr \o <<SetIdEvent(EmptyString)>>, "find")
              ELSE Outcome([dd EXCEPT !.aud = out.Aud, !.public_key = out.PublicKey],
                           tr \o <<SetEvent("aud", out.Aud),
                                   SetEvent("public_key", out.PublicKey)>>, "")

\* Read with the two fetched values stored in each other's field
ReadOp_SwapsAudAndKey(dd, out) ==
    LET applicationID == dd.application_id
        identifier == initIdentifier(dd)
        entry == <<ReadEvent(dd.id)>>
    IN  IF identifier.err THEN Outcome(dd, entry, "scope")
        ELSE
          LET fn == IF identifier.Type = AccountType
                    THEN "AccessCACertificate" ELSE "ZoneLevelAccessCACertificate"
              tr == entry \o <<CallEvent(fn, identifier.Value, applicationID,
                                         out.res, out.Aud, out.PublicKey)>>
          IN  IF out.res = "notfound"
              THEN Outcome([dd EXCEPT !.id = EmptyString],
                           tr \o <<SetIdEvent(EmptyString)>>, "")
              ELSE IF out.res = "error" THEN Outcome(dd, tr, "find")
              ELSE Outcome([dd EXCEPT !.aud = out.PublicKey, !.public_key = out.Aud],
                           tr \o <<SetEvent("aud", out.PublicKey),
                                   SetEvent("public_key", out.Aud)>>, "")

\* Read with the get call keyed by d.Id() instead of application_id
ReadOp_KeyedById(dd, out) ==
    LET applicationID == dd.id
        identifier == initIdentifier(dd)
        entry == <<ReadEvent(dd.id)>>
    IN  IF identifier.err THEN Outcome(dd, entry, "scope")
        ELSE
          LET fn == IF identifier.Type = AccountType
                    THEN "AccessCACertificate" ELSE "ZoneLevelAccessCACertificate"
              tr == entry \o <<CallEvent(fn, identifier.Value, applicationID,
                                         out.res, out.Aud, out.PublicKey)>>
          IN  IF out.res = "notfound"
              THEN Outcome([dd EXCEPT !.id = EmptyString],
                           tr \o <<SetIdEvent(EmptyString)>>, "")
              ELSE IF out.res = "error" THEN Outcome(dd, tr, "find")
              ELSE Outcome([dd EXCEPT !.aud = out.Aud, !.public_key = out.PublicKey],
                           tr \o <<SetEvent("aud", out.Aud),
                                   SetEvent("public_key", out.PublicKey)>>, "")

\* resourceCloudflareAccessCACertificateRead(ctx, d, meta) with the remote get
\* call answering out
ReadOp(dd, out) ==
    LET applicationID == dd.application_id
        identifier == initIdentifier(dd)
        entry == <<ReadEvent(dd.id)>>
    IN  IF identifier.err THEN Outcome(dd, entry, "scope")
        ELSE
          LET fn == IF identifier.Type = AccountType
                    THEN "AccessCACertificate" ELSE "ZoneLevelAccessCACertificate"
              tr == entry \o <<CallEvent(fn, identifier.Value, applicationID,
                                         out.res, out.Aud, out.PublicKey)>>
          IN  IF out.res = "notfound"
              THEN Outcome([dd EXCEPT !.id = EmptyString],
                           tr \o <<SetIdEvent(EmptyString)>>, "")
              ELSE IF out.res = "error" THEN Outcome(dd, tr, "find")
              ELSE Outcome([dd EXCEPT !.aud = out.Aud, !.public_key = out.PublicKey],
                           tr \o <<SetEvent("aud", out.Aud),
                                   SetEvent("public_key", out.PublicKey)>>, "")

\* Create that runs its Read before it stores the returned identifier
CreateOp_ReadsBeforeSetId(dd, cout, gout) ==
    LET identifier == initIdentifier(dd) IN
    IF identifier.err THEN Outcome(dd, <<>>, "scope")
    ELSE
      LET fn == IF identifier.Type = AccountType
                THEN "CreateAccessCACertificate" ELSE "CreateZoneLevelAccessCACertificate"
          call == CallEvent(fn, identifier.Value, dd.application_id,
                            cout.res, cout.ID, EmptyString)
      IN  IF cout.res # "ok" THEN Outcome(dd, <<call>>, "create")
          ELSE
            LET r == ReadOp(dd, gout)
            IN  Outcome([r.d EXCEPT !.id = cout.ID],
                        <<call>> \o r.trace \o <<SetIdEvent(cout.ID)>>, r.diag)

\* resourceCloudflareAccessCACertificateCreate(ctx, d, meta) with the remote
\* create call answering cout and the get call of its Read answering gout
CreateOp(dd, cout, gout) ==
    LET identifier == initIdentifier(dd) IN
    IF identifier.err THEN Outcome(dd, <<>>, "scope")
    ELSE
      LET fn == IF identifier.Type = AccountType
                THEN "CreateAccessCACertificate" ELSE "CreateZoneLevelAccessCACertificate"
          call == CallEvent(fn, identifier.Value, dd.application_id,
                            cout.res, cout.ID, EmptyString)
      IN  IF cout.res # "ok" THEN Outcome(dd, <<call>>, "create")
          ELSE
            LET d1 == [dd EXCEPT !.id = cout.ID]
                r == ReadOp(d1, gout)
            IN  Outcome(r.d, <<call, SetIdEvent(cout.ID)>> \o r.trace, r.diag)

\* Update that refreshes the state as the other handlers do, the remote get
\* call answering Not-Found
UpdateOp_Reads(dd) ==
    ReadOp(dd, [res |-> "notfound", Aud |-> EmptyString, PublicKey |-> EmptyString])

\* resourceCloudflareAccessCACertificateUpdate(ctx, d, meta)
UpdateOp(dd) == Outcome(dd, <<>>, "")

\* Delete that forgets to clear the identifier
DeleteOp_KeepsId(dd, dout) ==
    LET applicationID == dd.application_id
        identifier == initIdentifier(dd)
    IN  IF identifier.err THEN Outcome(dd, <<>>, "scope")
        ELSE
          LET fn == IF identifier.Type = AccountType
                    THEN "DeleteAccessCACertificate" ELSE "DeleteZoneLevelAccessCACertificate"
              call == CallEvent(fn, identifier.Value, applicationID,
                                dout, EmptyString, EmptyString)
          IN  IF dout # "ok" THEN Outcome(dd, <<call>>, "delete")
              ELSE Outcome(dd, <<call>>, "")

\* Delete that clears the identifier before it looks at the error
DeleteOp_ClearsOnError(dd, dout) ==
    LET applicationID == dd.application_id
        identifier == initIdentifier(dd)
    IN  IF identifier.err THEN Outcome(dd, <<>>, "scope")
        ELSE
          LET fn == IF identifier.Type = AccountType
                    THEN "DeleteAccessCACertificate" ELSE "DeleteZoneLevelAccessCACertificate"
              call == CallEvent(fn, identifier.Value, applicationID,
                                dout, EmptyString, EmptyString)
          IN  Outcome([dd EXCEPT !.id = EmptyString],
                      <<call, SetIdEvent(EmptyString)>>,
                      IF dout # "ok" THEN "delete" ELSE "")

\* resourceCloudflareAccessCACertificateDelete(ctx, d, meta) with the remote
\* delete call answering dout
DeleteOp(dd, dout) ==
    LET applicationID == dd.application_id
        identifier == initIdentifier(dd)
    IN  IF identifier.err THEN Outcome(dd, <<>>, "scope")
        ELSE
          LET fn == IF identifier.Type = AccountType
                    THEN "DeleteAccessCACertificate" ELSE "DeleteZoneLevelAccessCACertificate"
              call == CallEvent(fn, identifier.Value, applicationID,
                                dout, EmptyString, EmptyString)
          IN  IF dout # "ok" THEN Outcome(dd, <<call>>, "delete")
              ELSE Outcome([dd EXCEPT !.id = EmptyString],
                           <<call, SetIdEvent(EmptyString)>>, "")

\* Import that takes the certificate identifier from the second segment and
\* the container id from the third
ImportOp_SwapsSegments(dd, gout) ==
    LET attributes == SplitN(dd.id, SplitLimit) IN
    IF Len(attributes) # RequiredAttributes
    THEN [d |-> dd, trace |-> <<>>, diag |-> "format", ret |-> <<>>]
    ELSE
      LET identifierType == attributes[1]
          identifierID == attributes[3]
          accessCACertificateID == attributes[2]
      IN  IF identifierType # AccountType /\ identifierType # ZoneType
          THEN [d |-> dd, trace |-> <<>>, diag |-> "format", ret |-> <<>>]
          ELSE
            LET key == IF identifierType = AccountType THEN "account_id" ELSE "zone_id"
                d1 == IF identifierType = AccountType
                      THEN [dd EXCEPT !.account_id = identifierID]
                      ELSE [dd EXCEPT !.zone_id = identifierID]
                d2 == [d1 EXCEPT !.id = accessCACertificateID]
                r == ReadOp(d2, gout)
                tr == <<SetEvent(key, identifierID), SetIdEvent(accessCACertificateID)>>
                        \o r.trace
            IN  IF r.diag # ""
                THEN [d |-> r.d, trace |-> tr, diag |-> "read", ret |-> <<>>]
                ELSE [d |-> r.d, trace |-> tr, diag |-> "", ret |-> <<r.d>>]

\* Import without the check of the first segment: whatever is not "account"
\* is taken as a zone
ImportOp_NoKindCheck(dd, gout) ==
    LET attributes == SplitN(dd.id, SplitLimit) IN
    IF Len(attributes) # RequiredAttributes
    THEN [d |-> dd, trace |-> <<>>, diag |-> "format", ret |-> <<>>]
    ELSE
      LET identifierType == attributes[1]
          identifierID == attributes[2]
          accessCACertificateID == attributes[3]
          key == IF identifierType = AccountType THEN "account_id" ELSE "zone_id"
          d1 == IF identifierType = AccountType
                THEN [dd EXCEPT !.account_id = identifierID]
                ELSE [dd EXCEPT !.zone_id = identifierID]
          d2 == [d1 EXCEPT !.id = accessCACertificateID]
          r == ReadOp(d2, gout)
          tr == <<SetEvent(key, identifierID), SetIdEvent(accessCACertificateID)>>
                  \o r.trace
      IN  IF r.diag # ""
          THEN [d |-> r.d, trace |-> tr, diag |-> "read", ret |-> <<>>]
          ELSE [d |-> r.d, trace |-> tr, diag |-> "", ret |-> <<r.d>>]

\* resourceCloudflareAccessCACertificateImport(ctx, d, meta) with the get call
\* of its Read answering gout; ret is the returned []*schema.ResourceData
\* (<<>> is nil)
ImportOp(dd, gout) ==
    LET attributes == SplitN(dd.id, SplitLimit) IN
    IF Len(attributes) # RequiredAttributes
    THEN [d |-> dd, trace |-> <<>>, diag |-> "format", ret |-> <<>>]
    ELSE
      LET identifierType == attributes[1]
          identifierID == attributes[2]
          accessCACertificateID == attributes[3]
      IN  IF identifierType # AccountType /\ identifierType # ZoneType
          THEN [d |-> dd, trace |-> <<>>, diag |-> "format", ret |-> <<>>]
          ELSE
            LET key == IF identifierType = AccountType THEN "account_id" ELSE "zone_id"
                d1 == IF identifierType = AccountType
                      THEN [dd EXCEPT !.account_id = identifierID]
                      ELSE [dd EXCEPT !.zone_id = identifierID]
                d2 == [d1 EXCEPT !.id = accessCACertificateID]
                r == ReadOp(d2, gout)
                tr == <<SetEvent(key, identifierID), SetIdEvent(accessCACertificateID)>>
                        \o r.trace
            IN  IF r.diag # ""
                THEN [d |-> r.d, trace |-> tr, diag |-> "read", ret |-> <<>>]
                ELSE [d |-> r.d, trace |-> tr, diag |-> "", ret |-> <<r.d>>]

\* ------------------------------------------------------------------------
\* State machine
\* ------------------------------------------------------------------------

VARIABLES
    d,      \* the local state record of the resource
    pre,    \* the ResourceData the last handler was entered with
    rd,     \* that ResourceData as the last handler left it
    op,     \* the last lifecycle operation
    diag,   \* its diagnostic or error ("" is none)
    trace   \* the remote calls and state writes it made, in order

vars == <<d, pre, rd, op, diag, trace>>

Init ==
    /\ d = NewData(EmptyString, EmptyString, EmptyString, EmptyString)
    /\ pre = d
    /\ rd = d
    /\ op = "none"
    /\ diag = ""
    /\ trace = <<>>

\* the framework creates a resource that has no local state, from its
\* configuration
Create ==
    /\ d.id = EmptyString
    /\ \E cfg \in Configs :
       \E o \in {CreateOp(cfg, cout, gout) : cout \in CreateOutcomes, gout \in GetOutcomes} :
         /\ pre' = cfg
         /\ rd' = o.d
         /\ d' = o.d
         /\ diag' = o.diag
         /\ trace' = o.trace
    /\ op' = "Create"

\* the framework refreshes the local state
Read ==
    /\ \E gout \in GetOutcomes :
         LET o == ReadOp(d, gout) IN
         /\ pre' = d
         /\ rd' = o.d
         /\ d' = o.d
         /\ diag' = o.diag
         /\ trace' = o.trace
    /\ op' = "Read"

Update ==
    /\ LET o == UpdateOp(d) IN
         /\ pre' = d
         /\ rd' = o.d
         /\ d' = o.d
         /\ diag' = o.diag
         /\ trace' = o.trace
    /\ op' = "Update"

Delete ==
    /\ \E dout \in DeleteOutcomes :
         LET o == DeleteOp(d, dout) IN
         /\ pre' = d
         /\ rd' = o.d
         /\ d' = o.d
         /\ diag' = o.diag
         /\ trace' = o.trace
    /\ op' = "Delete"

\* the framework imports into a resource that has no local state; the
\* returned ResourceData becomes the local state, nil leaves it as it was
Import ==
    /\ d.id = EmptyString
    /\ \E cid \in ImportIDs :
       \E o \in {ImportOp(ImportData(cid), gout) : gout \in GetOutcomes} :
         /\ pre' = ImportData(cid)
         /\ rd' = o.d
         /\ d' = IF o.ret # <<>> THEN o.ret[1] ELSE d
         /\ diag' = o.diag
         /\ trace' = o.trace
    /\ op' = "Import"

Next == Create \/ Read \/ Update \/ Delete \/ Import

Spec == Init /\ [][Next]_vars

\* ------------------------------------------------------------------------
\* Vocabulary of the properties
\* ------------------------------------------------------------------------

CreateFns == {"CreateAccessCACertificate", "CreateZoneLevelAccessCACertificate"}

GetFns == {"AccessCACertificate", "ZoneLevelAccessCACertificate"}

DeleteFns == {"DeleteAccessCACertificate", "DeleteZoneLevelAccessCACertificate"}

AccountFns == {"CreateAccessCACertificate", "AccessCACertificate", "DeleteAccessCACertificate"}

ZoneFns == {"CreateZoneLevelAccessCACertificate", "ZoneLevelAccessCACertificate",
            "DeleteZoneLevelAccessCACertificate"}

\* positions of the events of kind ev in tr
EventIdx(tr, ev) == {i \in DOMAIN tr : tr[i].ev = ev}

\* positions of the remote calls of tr
CallIdx(tr) == EventIdx(tr, "call")

\* positions of the remote get calls of tr
GetIdx(tr) == {i \in CallIdx(tr) : tr[i].fn \in GetFns}

\* a remote get call of tr answered Not-Found
NotFoundIn(tr) == \E i \in GetIdx(tr) : tr[i].res = "notfound"

\* a remote get call of tr returned an entity
FetchedIn(tr) == \E i \in GetIdx(tr) : tr[i].res = "ok"

Absent(dd) == dd.id = EmptyString

Present(dd) == dd.id # EmptyString

\* the suffixes of s, the empty one included
Suffixes(s) == {SubSeq(s, i, Len(s)) : i \in 1..(Len(s) + 1)}

\* s has a "/"
HasSlash(s) == \E i \in 1..Len(s) : s[i] = Slash

\* number of "/" in s
CountSlash(s) == Cardinality({i \in 1..Len(s) : s[i] = Slash})

\* s = kind "/" A "/" C
IsComposite(s, kind, A, C) == s = kind \o <<Slash>> \o A \o <<Slash>> \o C

\* ------------------------------------------------------------------------
\* C1
\* ------------------------------------------------------------------------

\* what Import does with the import ID kind/A/C, field being kind's container
\* field: it sets field to A and the identifier to C, enters Read once with
\* that identifier, and the only remote call is that Read's get call
ImportedAs(field, A, C) ==
    /\ Len(trace) >= 4
    /\ trace[1] = SetEvent(field, A)
    /\ trace[2] = SetIdEvent(C)
    /\ trace[3] = ReadEvent(C)
    /\ EventIdx(trace, "Read") = {3}
    /\ CallIdx(trace) = {4}
    /\ GetIdx(trace) = {4}
    /\ rd[field] = A
    /\ \A f \in {"account_id", "zone_id"} \ {field} : rd[f] = EmptyString
    /\ rd.id = IF NotFoundIn(trace) THEN EmptyString ELSE C
    /\ diag = "" => d = rd

\* C1: for every import ID "account/A/C" or "zone/Z/C" with a container id A
\* (Z) that is not empty, Import sets account_id = A (zone_id = Z) and the
\* local identifier to C, then runs exactly one Read, whose get call is the
\* only remote call of the Import.
C1_ImportSetsScopeAndReadsOnce ==
    op = "Import" =>
      \A A \in IdWords \ {EmptyString}, C \in Suffixes(pre.id) :
        /\ IsComposite(pre.id, AccountType, A, C) => ImportedAs("account_id", A, C)
        /\ IsComposite(pre.id, ZoneType, A, C) => ImportedAs("zone_id", A, C)

\* an Import of "zone/a1/c9" whose Read fetched the entity
C1_Witness ==
    /\ op = "Import"
    /\ pre.id = Join(<<ZoneType, <<"a", "1">>, <<"c", "9">>>>)
    /\ FetchedIn(trace)
    /\ d.zone_id = <<"a", "1">>
    /\ d.id = <<"c", "9">>

\* ------------------------------------------------------------------------
\* C2
\* ------------------------------------------------------------------------

RECURSIVE SplitAll(_)
\* all the "/"-delimited segments of s
SplitAll(s) ==
    LET i == IndexSlash(s) IN
    IF i = 0 THEN <<s>>
    ELSE <<SubSeq(s, 1, i - 1)>> \o SplitAll(SubSeq(s, i + 1, Len(s)))

\* exactly three non-empty segments, the first being "account" or "zone"
ThreeNonEmptySegments(s) ==
    LET segs == SplitAll(s) IN
    /\ Len(segs) = 3
    /\ \A i \in 1..3 : segs[i] # EmptyString
    /\ segs[1] \in {AccountType, ZoneType}

\* at least two "/", and "account" or "zone" before the first one
KindAndTwoSlashes(s) ==
    /\ CountSlash(s) >= 2
    /\ \E kind \in {AccountType, ZoneType} :
         /\ Len(s) > Len(kind)
         /\ SubSeq(s, 1, Len(kind) + 1) = kind \o <<Slash>>

\* Import failed with the format error and did nothing else
RejectedUntouched == diag = "format" /\ trace = <<>> /\ rd = pre

\* C2 as stated: Import accepts only IDs of exactly three non-empty segments
\* whose first is "account" or "zone"; every other ID fails with the format
\* error, without a remote call and without a change of the local state.
C2_Original ==
    op = "Import" /\ ~ThreeNonEmptySegments(pre.id) => RejectedUntouched

\* C2 as amended: Import gets past validation exactly for the IDs that have at
\* least two "/" and "account" or "zone" (case-sensitive) before the first one;
\* the second and third segment may be empty and the third is the whole
\* remainder; every other ID fails with the format error, without a remote
\* call and without a change of the local state.
C2_ImportValidation ==
    op = "Import" =>
      /\ diag = "format" <=> ~KindAndTwoSlashes(pre.id)
      /\ diag = "format" => RejectedUntouched
      /\ diag # "format" => EventIdx(trace, "Read") # {}

\* an Import of "Account/a1/c9" was rejected
C2_Witness ==
    /\ op = "Import"
    /\ pre.id = Join(<<<<"A", "c", "c", "o", "u", "n", "t">>, <<"a", "1">>, <<"c", "9">>>>)
    /\ diag = "format"

\* ------------------------------------------------------------------------
\* C3
\* ------------------------------------------------------------------------

\* the remote create call of the last operation returned an identifier
Created == \E i \in CallIdx(trace) : trace[i].fn \in CreateFns /\ trace[i].res = "ok"

\* C3: in a Create whose remote create call returned an identifier, that
\* identifier is stored as the local identifier and then, never before,
\* exactly one Read is entered, with that identifier as d.Id(); a Create
\* without a returned identifier enters no Read.
C3_CreateThenOneRead ==
    op = "Create" =>
      /\ Cardinality(EventIdx(trace, "Read")) = IF Created THEN 1 ELSE 0
      /\ Created =>
           \E i, j, k \in DOMAIN trace :
             /\ i < j /\ j < k
             /\ trace[i].ev = "call" /\ trace[i].fn \in CreateFns
             /\ trace[j] = SetIdEvent(trace[i].r1)
             /\ trace[k] = ReadEvent(trace[i].r1)
             /\ \A m \in (j + 1)..(k - 1) : trace[m].ev # "SetId"

\* a Create whose Read fetched the entity
C3_Witness ==
    /\ op = "Create"
    /\ Created
    /\ FetchedIn(trace)
    /\ d.id = <<"c", "9">>

\* ------------------------------------------------------------------------
\* C4
\* ------------------------------------------------------------------------

\* a Read step whose get call answered Not-Found
ReadNotFound == op = "Read" /\ NotFoundIn(trace)

\* C4: whenever the get call of a Read answers Not-Found, the local identifier
\* is empty afterwards and there is no diagnostic; a Read that follows such a
\* Read and is answered Not-Found again leaves the same state, again without a
\* diagnostic.
C4_NotFoundClearsId ==
    /\ [](NotFoundIn(trace) => rd.id = EmptyString /\ diag = "")
    /\ [][ReadNotFound /\ ReadNotFound' => d' = d /\ Absent(d') /\ diag' = ""]_vars

\* a Read of a Present resource was answered Not-Found
C4_Witness ==
    /\ ReadNotFound
    /\ Present(pre)
    /\ Absent(d)

\* ------------------------------------------------------------------------
\* C5
\* ------------------------------------------------------------------------

\* the last Delete failed: in scope resolution or in the remote delete call
DeleteFailed ==
    \/ initIdentifier(pre).err
    \/ \E i \in CallIdx(trace) : trace[i].res = "error"

\* C5: a Delete whose remote delete call succeeds clears the local identifier;
\* a Delete whose scope resolution or remote delete call fails returns a
\* diagnostic and leaves the local state as it was.
C5_DeleteClearsOrKeeps ==
    op = "Delete" =>
      /\ DeleteFailed => diag # "" /\ d = pre
      /\ ~DeleteFailed => diag = "" /\ Absent(d)
                            /\ \E i \in CallIdx(trace) :
                                 trace[i].fn \in DeleteFns /\ trace[i].res = "ok"

\* a Delete of a Present resource failed in the remote call
C5_Witness ==
    /\ op = "Delete"
    /\ diag = "delete"
    /\ Present(d)

\* ------------------------------------------------------------------------
\* C6
\* ------------------------------------------------------------------------

\* C6: Update issues no remote call, returns no diagnostic and leaves the
\* local identifier and every field as they were, in every state.
C6_UpdateIsNoOp ==
    op = "Update" => trace = <<>> /\ diag = "" /\ rd = pre /\ d = pre

\* an Update of a Present resource
C6_Witness ==
    /\ op = "Update"
    /\ Present(pre)
    /\ pre.aud # EmptyString

\* ------------------------------------------------------------------------
\* C7
\* ------------------------------------------------------------------------

\* C7: the resource becomes Present only by a Create or a successful Import,
\* becomes Absent only by a successful Delete or a Read answered Not-Found,
\* and stays Present over an Update and over a Read that fetched the entity.
C7_Transitions ==
    [][/\ Absent(d) /\ Present(d') =>
            op' = "Create" \/ (op' = "Import" /\ diag' = "")
       /\ Present(d) /\ Absent(d') =>
            (op' = "Delete" /\ diag' = "") \/ (op' = "Read" /\ NotFoundIn(trace'))
       /\ Present(d) /\ op' = "Update" => Present(d')
       /\ Present(d) /\ op' = "Read" /\ FetchedIn(trace') => Present(d')]_vars

\* a Present resource became Absent by a Read answered Not-Found after it had
\* been imported
C7_Witness ==
    /\ ReadNotFound
    /\ Present(pre)
    /\ Absent(d)
    /\ pre.application_id = EmptyString

\* ------------------------------------------------------------------------
\* C8
\* ------------------------------------------------------------------------

\* C8 as stated: whenever an operation ends with a diagnostic or error, the
\* local identifier is the one the resource had before the operation.
C8_Original ==
    [][diag' # "" => d'.id = d.id]_vars

\* C8 as amended: a Read, a Delete or an Import that ends with a diagnostic or
\* error, and a Create that fails in scope resolution or in the remote create
\* call, leave the local identifier of the resource as it was (a failed Import
\* returns no ResourceData; the one it was handed is untouched after a format
\* error and holds the third segment as identifier after a failed Read); a
\* Create whose remote create call succeeded and whose Read then failed
\* leaves the identifier returned by the create call.
C8_FailureKeepsId ==
    [][diag' # "" =>
         IF op' = "Create" /\ diag' = "find"
         THEN /\ Absent(d)
              /\ \E i \in CallIdx(trace') :
                   /\ trace'[i].fn \in CreateFns
                   /\ trace'[i].res = "ok"
                   /\ d'.id = trace'[i].r1
         ELSE /\ d'.id = d.id
              /\ op' = "Import" => d' = d
              /\ op' = "Import" /\ diag' = "format" => rd' = pre'
              /\ op' = "Import" /\ diag' = "read" => rd'.id = trace'[2].k1]_vars

\* a Read of a Present resource failed with a generic error
C8_Witness ==
    /\ op = "Read"
    /\ diag = "find"
    /\ Present(d)

\* ------------------------------------------------------------------------
\* C9
\* ------------------------------------------------------------------------

\* the entity the get call at position i of the trace returned
FetchedAud(i) == trace[i].r1

FetchedPublicKey(i) == trace[i].r2

\* C9: a Read whose get call succeeds sets aud and public_key to the fetched
\* values and changes nothing else, and returns no diagnostic; this holds of
\* the Read inside Create and Import too, whose state at entry has the
\* identifier just set.
C9_ReadOverwritesOnlyAudAndKey ==
    \A i \in GetIdx(trace) :
      trace[i].res = "ok" =>
        /\ diag = ""
        /\ rd.aud = FetchedAud(i)
        /\ rd.public_key = FetchedPublicKey(i)
        /\ \E k \in EventIdx(trace, "Read") : k < i /\ rd.id = trace[k].k1
        /\ rd.application_id = pre.application_id
        /\ op # "Import" => rd.account_id = pre.account_id /\ rd.zone_id = pre.zone_id
        /\ op = "Read" =>
             rd = [pre EXCEPT !.aud = FetchedAud(i), !.public_key = FetchedPublicKey(i)]

\* a Read replaced an aud that was fetched earlier by another one
C9_Witness ==
    /\ op = "Read"
    /\ FetchedIn(trace)
    /\ pre.aud # EmptyString
    /\ d.aud # pre.aud
    /\ d.id = pre.id
    /\ Present(d)

\* ------------------------------------------------------------------------
\* C10
\* ------------------------------------------------------------------------

\* C10: every remote call is the variant of the resolved scope kind and is
\* keyed by the resolved container id and the application_id of the local
\* state, never by the certificate identifier; no remote call is issued when
\* scope resolution fails.
C10_CallsFollowScope ==
    LET identifier == initIdentifier(rd) IN
    /\ identifier.err => CallIdx(trace) = {}
    /\ \A i \in CallIdx(trace) :
         /\ trace[i].fn \in AccountFns <=> identifier.Type = AccountType
         /\ trace[i].fn \in ZoneFns <=> identifier.Type = ZoneType
         /\ trace[i].k1 = identifier.Value
         /\ trace[i].k2 = rd.application_id
         /\ rd.application_id = pre.application_id

\* a zone-level Create made its two remote calls, with a certificate
\* identifier that differs from the container id
C10_Witness ==
    /\ op = "Create"
    /\ rd.zone_id # EmptyString
    /\ Cardinality(CallIdx(trace)) = 2
    /\ rd.id # EmptyString
    /\ rd.id # rd.zone_id

====
